---- MODULE Spec2Model ----
(***************************************************************************)
(* The JSON example parser of examples/json/parser.rs, modelled as pure    *)
(* operators over character sequences.  An input is a sequence of          *)
(* one-character strings, a parser maps an input to an IResult: Ok with    *)
(* the remaining input and the output, Err::Error (recoverable) or         *)
(* Err::Failure (fatal) with an error chain.  The error chain is the       *)
(* context-recording error type: a list of (input, kind) and               *)
(* (input, context label) entries in the order they were pushed.           *)
(***************************************************************************)
EXTENDS Integers, Sequences, FiniteSets, TLC

VARIABLES input, op, res

vars == <<input, op, res>>

(***************************************************************************)
(* Characters                                                              *)
(***************************************************************************)
QUOTE == "\""
BSLASH == "\\"
\* sp: let chars = " \t\r\n"
WsChars == {" ", "\t", "\r", "\n"}

Digits == {"0", "1", "2", "3", "4", "5", "6", "7", "8", "9"}

Letters == {"a", "b", "c", "d", "e", "f", "g", "h", "i", "j", "k", "l", "m",
            "n", "o", "p", "q", "r", "s", "t", "u", "v", "w", "x", "y", "z",
            "A", "B", "C", "D", "E", "F", "G", "H", "I", "J", "K", "L", "M",
            "N", "O", "P", "Q", "R", "S", "T", "U", "V", "W", "X", "Y", "Z"}

\* one_of("\"n\\")
Escapable == {QUOTE, "n", BSLASH}

DigitVal(c) ==
  CASE c = "0" -> 0 [] c = "1" -> 1 [] c = "2" -> 2 [] c = "3" -> 3
    [] c = "4" -> 4 [] c = "5" -> 5 [] c = "6" -> 6 [] c = "7" -> 7
    [] c = "8" -> 8 [] c = "9" -> 9

Drop(i, n) == SubSeq(i, n + 1, Len(i))

Take(i, n) == SubSeq(i, 1, n)

(***************************************************************************)
(* IResult and the error chain                                             *)
(***************************************************************************)
NoOut == [t |-> "None"]

Ok(rest, out) == [tag |-> "Ok", rest |-> rest, out |-> out, err |-> <<>>]

Error(e) == [tag |-> "Error", rest |-> <<>>, out |-> NoOut, err |-> e]

Failure(e) == [tag |-> "Failure", rest |-> <<>>, out |-> NoOut, err |-> e]

\* ParseError::from_error_kind
FromErrorKind(i, kind) == <<[at |-> i, entry |-> "Nom", what |-> kind]>>

\* ParseError::append
AppendKind(i, kind, other) ==
  Append(other, [at |-> i, entry |-> "Nom", what |-> kind])

\* ParseError::or: the default keeps the other (later) error
Or(e, other) == other

\* ContextError::add_context
AddContext(i, label, other) ==
  Append(other, [at |-> i, entry |-> "Context", what |-> label])

RECURSIVE Labels(_)
\* the context labels of an error chain, in the order they were added
Labels(e) ==
  IF e = <<>> THEN <<>>
  ELSE IF Head(e).entry = "Context" THEN <<Head(e).what>> \o Labels(Tail(e))
       ELSE Labels(Tail(e))

(***************************************************************************)
(* Combinators of the library, as the parser uses them                     *)
(***************************************************************************)
\* a char literal used as a parser: '\"', '[', ',' ...
Char(c, i) ==
  IF i # <<>> /\ Head(i) = c THEN Ok(Tail(i), c)
  ELSE Error(FromErrorKind(i, "Char"))

\* tag(string)
Tag(t, i) ==
  IF Len(i) >= Len(t) /\ Take(i, Len(t)) = t THEN Ok(Drop(i, Len(t)), t)
  ELSE Error(FromErrorKind(i, "Tag"))

RECURSIVE PrefixLen(_, _)
\* length of the longest prefix of i whose characters are all in S
PrefixLen(S, i) ==
  IF i # <<>> /\ Head(i) \in S THEN 1 + PrefixLen(S, Tail(i)) ELSE 0

\* take_while(pred): never fails
TakeWhile(S, i) ==
  LET n == PrefixLen(S, i) IN Ok(Drop(i, n), Take(i, n))

\* alphanumeric1
alphanumeric(i) ==
  LET n == PrefixLen(Letters \cup Digits, i)
  IN IF n = 0 THEN Error(FromErrorKind(i, "AlphaNumeric"))
     ELSE Ok(Drop(i, n), Take(i, n))

\* one_of(list)
OneOf(S, i) ==
  IF i # <<>> /\ Head(i) \in S THEN Ok(Tail(i), Head(i))
  ELSE Error(FromErrorKind(i, "OneOf"))

RECURSIVE DecimalValue(_, _)
DecimalValue(acc, ds) ==
  IF ds = <<>> THEN acc
  ELSE DecimalValue(acc * 10 + DigitVal(Head(ds)), Tail(ds))

\* f64: the inputs of the model hold no sign, dot or exponent character, so
\* the literal is a run of digits and its value the decimal number it spells
f64(i) ==
  LET n == PrefixLen(Digits, i)
  IN IF n = 0 THEN Error(FromErrorKind(i, "Float"))
     ELSE Ok(Drop(i, n), DecimalValue(0, Take(i, n)))

\* cut: Err::Error becomes Err::Failure
Cut(r) == IF r.tag = "Error" THEN Failure(r.err) ELSE r

\* Parser::context: the label is added to the error chain of the wrapped parser
Context(i, label, r) ==
  IF r.tag = "Ok" THEN r
  ELSE [r EXCEPT !.err = AddContext(i, label, r.err)]

\* opt: a recoverable error becomes Ok(None)
Opt(i, r) == IF r.tag = "Error" THEN Ok(i, NoOut) ELSE r

RECURSIVE AltFrom(_, _, _, _)
\* alt over the results rs of the alternatives at i, from alternative n on;
\* e is the error kept so far
AltFrom(i, rs, n, e) ==
  IF n > Len(rs) THEN Error(AppendKind(i, "Alt", e))
  ELSE IF rs[n].tag = "Error"
       THEN AltFrom(i, rs, n + 1, IF n = 1 THEN rs[n].err ELSE Or(e, rs[n].err))
       ELSE rs[n]

\* alt((p1, p2, ...)): the first alternative that does not fail recoverably
Alt(i, rs) == AltFrom(i, rs, 1, <<>>)

\* preceded(first, second), given the result of first and the result of
\* second at the input first left
Preceded(first, second) == IF first.tag # "Ok" THEN first ELSE second

\* terminated(first, second): the output of first, after second matched
Terminated(first, second) ==
  IF first.tag # "Ok" THEN first
  ELSE IF second.tag # "Ok" THEN second
  ELSE Ok(second.rest, first.out)

\* Parser::map, given the result r and the mapped output
Map(r, mapped) == IF r.tag = "Ok" THEN Ok(r.rest, mapped) ELSE r

(***************************************************************************)
(* JsonValue                                                               *)
(***************************************************************************)
Null == [t |-> "Null"]
Str(s) == [t |-> "Str", s |-> s]
Boolean(b) == [t |-> "Boolean", b |-> b]
Num(n) == [t |-> "Num", n |-> n]
Array(a) == [t |-> "Array", a |-> a]
Object(m) == [t |-> "Object", m |-> m]

\* a map whose insertion keeps the value a key already has
Insert_keep(m, k, v) ==
  [x \in (DOMAIN m) \cup {k} |-> IF x \in DOMAIN m THEN m[x] ELSE v]

\* HashMap::insert: a later insertion overwrites an equal key
Insert(m, k, v) ==
  [x \in (DOMAIN m) \cup {k} |-> IF x = k THEN v ELSE m[x]]

RECURSIVE CollectFrom(_, _)
\* Iterator::collect into a HashMap: the pairs are inserted in order
CollectFrom(m, pairs) ==
  IF pairs = <<>> THEN m
  ELSE CollectFrom(Insert(m, Head(pairs)[1], Head(pairs)[2]), Tail(pairs))

EmptyMap == [x \in {} |-> Null]

Collect(pairs) == CollectFrom(EmptyMap, pairs)

(***************************************************************************)
(* The parsers of parser.rs                                                *)
(***************************************************************************)
sp(i) == TakeWhile(WsChars, i)

RECURSIVE EscapedLoop(_, _)
\* escaped(alphanumeric, '\\', one_of("\"n\\")): the loop, at position i of
\* the input inp
EscapedLoop(inp, i) ==
  IF i = <<>> THEN Ok(<<>>, inp)
  ELSE LET r == alphanumeric(i)
       IN IF r.tag = "Ok"
          THEN IF r.rest = <<>> THEN Ok(<<>>, inp)
               ELSE IF Len(r.rest) = Len(i)
                    THEN Ok(r.rest, Take(inp, Len(inp) - Len(r.rest)))
                    ELSE EscapedLoop(inp, r.rest)
          ELSE IF Head(i) = BSLASH
               THEN IF Len(i) <= 1
                    THEN Error(FromErrorKind(inp, "Escaped"))
                    ELSE LET r2 == OneOf(Escapable, Tail(i))
                         IN IF r2.tag # "Ok" THEN r2
                            ELSE IF r2.rest = <<>> THEN Ok(<<>>, inp)
                                 ELSE EscapedLoop(inp, r2.rest)
               ELSE LET index == Len(inp) - Len(i)
                    IN IF index = 0
                       THEN Error(FromErrorKind(inp, "Escaped"))
                       ELSE Ok(i, Take(inp, index))

parse_str(i) == EscapedLoop(i, i)

\* .map(JsonValue::Boolean) and the other output conversions
ToTrue(r) == Map(r, TRUE)
ToFalse(r) == Map(r, FALSE)
ToUnit(r) == Map(r, NoOut)
ToNull(r) == Map(r, Null)
ToStr(r) == Map(r, Str(r.out))
ToNum(r) == Map(r, Num(r.out))
ToBoolean(r) == Map(r, Boolean(r.out))
ToArray(r) == Map(r, Array(r.out))
ToObject(r) == Map(r, Object(r.out))
ToMap(r) == Map(r, Collect(r.out))

boolean(i) ==
  Alt(i, << ToTrue(Tag(<<"t", "r", "u", "e">>, i)),
            ToFalse(Tag(<<"f", "a", "l", "s", "e">>, i)) >>)

null(i) == ToUnit(Tag(<<"n", "u", "l", "l">>, i))

\* preceded(sp, c) for a character c, given the result gap of sp
SpChar(c, gap) == Preceded(gap, Char(c, gap.rest))

\* terminated(parse_str, '\"'), given the result of parse_str
StringClose(body) == Terminated(body, Char(QUOTE, body.rest))

\* string without the cut after the opening quote
StringBody_nocut(quote) ==
  Preceded(quote, StringClose(parse_str(quote.rest)))

\* preceded('\"', cut(terminated(parse_str, '\"'))), given the result of '\"'
StringBody(quote) ==
  Preceded(quote, Cut(StringClose(parse_str(quote.rest))))

string_nocut(i) == Context(i, "string", StringBody_nocut(Char(QUOTE, i)))

string(i) == Context(i, "string", StringBody(Char(QUOTE, i)))

RECURSIVE json_value(_)
RECURSIVE array(_)
RECURSIVE hash(_)
RECURSIVE key_value(_)
RECURSIVE ListLoop(_, _, _)

\* the element parser of a list: json_value in an array, key_value in a map
Element(kind, i) == IF kind = "value" THEN json_value(i) ELSE key_value(i)

\* preceded(sp, ','), the separator of both lists
Separator(i) == SpChar(",", sp(i))

\* a list that consumes a separator no element follows
ListElement_trailing(kind, i, acc, s, e) ==
  IF e.tag = "Error" THEN Ok(s.rest, acc)
  ELSE IF e.tag = "Failure" THEN e
  ELSE ListLoop(kind, e.rest, Append(acc, e.out))

\* separated_list0: after the separator matched with result s, given the
\* result e of the element parser; a recoverable error ends the list at i,
\* before the separator
ListElement(kind, i, acc, s, e) ==
  IF e.tag = "Error" THEN Ok(i, acc)
  ELSE IF e.tag = "Failure" THEN e
  ELSE ListLoop(kind, e.rest, Append(acc, e.out))

\* separated_list0: given the result s of the separator at i
ListSeparator(kind, i, acc, s) ==
  IF s.tag = "Error" THEN Ok(i, acc)
  ELSE IF s.tag = "Failure" THEN s
  ELSE IF Len(s.rest) = Len(i)
       THEN Error(FromErrorKind(s.rest, "SeparatedList"))
       ELSE ListElement(kind, i, acc, s, Element(kind, s.rest))

\* separated_list0: the loop after the first element, at input i with the
\* elements acc
ListLoop(kind, i, acc) == ListSeparator(kind, i, acc, Separator(i))

\* separated_list0: given the result e of the first element at i
ListFirst(kind, i, e) ==
  IF e.tag = "Error" THEN Ok(i, <<>>)
  ELSE IF e.tag = "Failure" THEN e
  ELSE ListLoop(kind, e.rest, <<e.out>>)

\* separated_list0(preceded(sp, ','), element)
separated_list0(kind, i) == ListFirst(kind, i, Element(kind, i))

\* terminated(separated_list0(..), preceded(sp, ']')), given the list
ArrayClose(list) == Terminated(list, SpChar("]", sp(list.rest)))

\* preceded('[', cut(..)), given the result of '['
ArrayBody(open) ==
  Preceded(open, Cut(ArrayClose(separated_list0("value", open.rest))))

array(i) == Context(i, "array", ArrayBody(Char("[", i)))

\* separated_pair: given the key and the result of json_value
PairValue(key, val) ==
  IF val.tag # "Ok" THEN val ELSE Ok(val.rest, <<key.out, val.out>>)

\* separated_pair: given the key and the result of cut(preceded(sp, ':'))
PairColon(key, colon) ==
  IF colon.tag # "Ok" THEN colon
  ELSE PairValue(key, json_value(colon.rest))

\* separated_pair: given the result of preceded(sp, string)
PairKey(key) ==
  IF key.tag # "Ok" THEN key
  ELSE PairColon(key, Cut(SpChar(":", sp(key.rest))))

\* preceded(sp, string), given the result gap of sp
SpString(gap) == Preceded(gap, string(gap.rest))

key_value(i) == PairKey(SpString(sp(i)))

\* terminated(separated_list0(..).map(collect), preceded(sp, '}'))
HashClose(list) == Terminated(ToMap(list), SpChar("}", sp(list.rest)))

\* preceded('{', cut(..)), given the result of '{'
HashBody(open) ==
  Preceded(open, Cut(HashClose(separated_list0("pair", open.rest))))

\* hash without the cut after the opening brace
HashBody_nocut(open) ==
  Preceded(open, HashClose(separated_list0("pair", open.rest)))

hash_nocut(i) == Context(i, "map", HashBody_nocut(Char("{", i)))

\* hash without its context label
hash_nocontext(i) == HashBody(Char("{", i))

hash(i) == Context(i, "map", HashBody(Char("{", i)))

\* the alternatives of json_value with string tried last
ValueAlt_string_last(j) ==
  Alt(j, << ToObject(hash(j)),
            ToArray(array(j)),
            ToNum(f64(j)),
            ToBoolean(boolean(j)),
            ToNull(null(j)),
            ToStr(string(j)) >>)

\* the alt of json_value, at the input j left by sp
ValueAlt(j) ==
  Alt(j, << ToObject(hash(j)),
            ToArray(array(j)),
            ToStr(string(j)),
            ToNum(f64(j)),
            ToBoolean(boolean(j)),
            ToNull(null(j)) >>)

\* preceded(sp, alt(..)), given the result gap of sp
SpValue(gap) == Preceded(gap, ValueAlt(gap.rest))

SpValue_string_last(gap) == Preceded(gap, ValueAlt_string_last(gap.rest))

json_value_string_last(i) == SpValue_string_last(sp(i))

json_value(i) == SpValue(sp(i))

\* the alt of root, at the input j left by sp
RootAlt(j) ==
  Alt(j, << ToObject(hash(j)), ToArray(array(j)), ToNull(null(j)) >>)

\* the closing opt(sp) of delimited, given the result of the alt
RootClose(v) == Terminated(v, Opt(v.rest, sp(v.rest)))

\* delimited(sp, alt(..), opt(sp)), given the result gap of sp
RootBody(gap) == Preceded(gap, RootClose(RootAlt(gap.rest)))

\* root that leaves the whitespace after the value unconsumed
RootBody_keeps_ws(gap) == Preceded(gap, RootAlt(gap.rest))

root_keeps_ws(i) == RootBody_keeps_ws(sp(i))

\* root that accepts every value json_value accepts
root_any_value(i) == RootClose(json_value(i))

root(i) == RootBody(sp(i))

(***************************************************************************)
(* Inputs: the texts the parsers are applied to                            *)
(***************************************************************************)
MaxToks == 3
MaxBody == 3
MaxPairs == 3
MaxElems == 2
MaxDepth == 3

RECURSIVE Flatten(_)
\* the concatenation of a sequence of texts
Flatten(ss) == IF ss = <<>> THEN <<>> ELSE Head(ss) \o Flatten(Tail(ss))

SeqsUpTo(S, n) == UNION { [1..k -> S] : k \in 0..n }

NullText == <<"n", "u", "l", "l">>
TrueText == <<"t", "r", "u", "e">>
FalseText == <<"f", "a", "l", "s", "e">>

Lit(body) == <<QUOTE>> \o body \o <<QUOTE>>

\* every text of at most MaxToks tokens
Tokens ==
  { <<"{">>, <<"}">>, <<"[">>, <<"]">>, <<",">>, <<":">>, <<" ">>, <<QUOTE>>,
    <<BSLASH>>, <<"k">>, <<"n">>, <<"1">>, NullText, TrueText, FalseText }

TokenTexts == { Flatten(ts) : ts \in SeqsUpTo(Tokens, MaxToks) }

\* string literals: a body of at most MaxBody pieces between quotes, then a tail
Pieces ==
  { <<"k">>, <<"1">>, <<" ">>, <<"-">>,
    <<BSLASH, QUOTE>>, <<BSLASH, BSLASH>>, <<BSLASH, "n">> }

Bodies == { Flatten(ps) : ps \in SeqsUpTo(Pieces, MaxBody) }

StringTails == { <<>>, <<" ">>, <<",", "1">> }

StringLiterals == { Lit(b) \o t : b \in Bodies, t \in StringTails }

\* objects of at most MaxPairs pairs, written compactly or with whitespace
Keys == { <<"k">>, <<"j">> }

ValueTexts == { <<"1">>, <<"2">>, Lit(<<"k">>) }

PairTexts(spaced) ==
  { (IF spaced THEN <<" ">> ELSE <<>>) \o Lit(k)
      \o (IF spaced THEN <<"\t", ":", " ">> ELSE <<":">>) \o v
    : k \in Keys, v \in ValueTexts }

RECURSIVE Join(_, _)
\* the texts ss separated by sep
Join(ss, sep) ==
  IF ss = <<>> THEN <<>>
  ELSE IF Len(ss) = 1 THEN Head(ss)
  ELSE Head(ss) \o sep \o Join(Tail(ss), sep)

Commas(spaced) == IF spaced THEN <<" ", ",">> ELSE <<",">>

Closing(spaced, c) == IF spaced THEN <<"\n", c>> ELSE <<c>>

ObjectTexts ==
  { <<"{">> \o Join(ps, Commas(spaced)) \o Closing(spaced, "}")
    : ps \in SeqsUpTo(PairTexts(TRUE), MaxPairs) \cup SeqsUpTo(PairTexts(FALSE), MaxPairs),
      spaced \in BOOLEAN }

\* objects whose last pair lacks its colon, or lacks its value
BadPairs ==
  { Lit(<<"k">>), Lit(<<"k">>) \o <<" ", "1">>, Lit(<<"k">>) \o <<"1">>,
    Lit(<<"k">>) \o <<":">>, <<" ">> \o Lit(<<"j">>) \o <<" ", ":", " ">> }

BadPairObjects ==
  { <<"{">> \o Join(ps \o <<bad>>, Commas(spaced)) \o Closing(spaced, "}")
    : ps \in SeqsUpTo(PairTexts(FALSE), MaxPairs - 1), bad \in BadPairs,
      spaced \in BOOLEAN }

\* arrays of at most MaxElems elements, and the same with a trailing comma
ElementTexts ==
  { <<"1">>, NullText, FalseText, Lit(<<"k">>), <<"[", "]">>, <<"{", "}">> }

ArrayTexts ==
  { <<"[">> \o Join(es, Commas(spaced)) \o Closing(spaced, "]")
    : es \in SeqsUpTo(ElementTexts, MaxElems), spaced \in BOOLEAN }

TrailingCommaArrays ==
  { <<"[">> \o Join(es, Commas(spaced)) \o Commas(spaced) \o Closing(spaced, "]")
    : es \in SeqsUpTo(ElementTexts, MaxElems) \ {<<>>}, spaced \in BOOLEAN }

\* a broken production under at most MaxDepth open arrays and objects
Openers ==
  { <<"[">>, <<"[", "1", ",", " ">>, <<"{">> \o Lit(<<"k">>) \o <<":">> }

BrokenTails ==
  { <<QUOTE, "k">>, <<QUOTE, BSLASH, "x">>, <<"[", "1", ",">>, <<"[", "1", " ", "2">>,
    <<"{">> \o Lit(<<"k">>) \o <<" ", "1">>, <<"{">> \o Lit(<<"k">>) \o <<":", "1">> }

NestedBroken ==
  { Flatten(os) \o t : os \in SeqsUpTo(Openers, MaxDepth), t \in BrokenTails }

\* a top-level value followed by further text
TopTexts ==
  { NullText, <<"{", "}">>, <<"{", " ", "}">>, <<"[", "]">>, <<"[", "1", "]">>,
    <<"{">> \o Lit(<<"k">>) \o <<":", "1", "}">> }

Extras ==
  { <<"x">>, <<"e", "x", "t", "r", "a">>, <<"[", "]">>, <<"}">>, <<",">>, <<"1", " ">> }

Gaps == { <<>>, <<" ">>, <<"\r", "\n">> }

TrailingTexts ==
  { g1 \o v \o g2 \o x : g1 \in Gaps, v \in TopTexts, g2 \in Gaps, x \in Extras }

Inputs ==
  TokenTexts \cup StringLiterals \cup ObjectTexts \cup BadPairObjects
    \cup ArrayTexts \cup TrailingCommaArrays \cup NestedBroken \cup TrailingTexts

(***************************************************************************)
(* The state machine: one text, one parser applied to it                   *)
(***************************************************************************)
Init ==
  /\ input \in Inputs
  /\ op = "none"
  /\ res = Ok(<<>>, NoOut)

Root ==
  /\ op = "none"
  /\ op' = "root"
  /\ res' = root(input)
  /\ UNCHANGED input

JsonValue ==
  /\ op = "none"
  /\ op' = "json_value"
  /\ res' = json_value(input)
  /\ UNCHANGED input

String ==
  /\ op = "none"
  /\ op' = "string"
  /\ res' = string(input)
  /\ UNCHANGED input

ArrayOp ==
  /\ op = "none"
  /\ op' = "array"
  /\ res' = array(input)
  /\ UNCHANGED input

Hash ==
  /\ op = "none"
  /\ op' = "hash"
  /\ res' = hash(input)
  /\ UNCHANGED input

Next == Root \/ JsonValue \/ String \/ ArrayOp \/ Hash

Spec == Init /\ [][Next]_vars

(***************************************************************************)
(* Properties                                                              *)
(***************************************************************************)
SkipWs(i) == Drop(i, PrefixLen(WsChars, i))

IsPrefix(p, i) == Len(i) >= Len(p) /\ Take(i, Len(p)) = p

LabelSet(e) == { Labels(e)[n] : n \in DOMAIN Labels(e) }

RECURSIVE CloseIndex(_, _)
\* the index of the first unescaped quote of i at or after index p, 0 if none
CloseIndex(i, p) ==
  IF p > Len(i) THEN 0
  ELSE IF i[p] = QUOTE THEN p
  ELSE IF i[p] = BSLASH THEN CloseIndex(i, p + 2)
  ELSE CloseIndex(i, p + 1)

\* C2: after the opening quote the string parser consumes characters until
\* the first unescaped closing quote: every literal whose body mixes
\* characters other than quote and backslash with the escapes \" \\ \n is
\* accepted, the returned body is the text between the quotes, and the
\* closing quote is consumed but is not part of the body.
C2_StringAccepted ==
  (op = "string" /\ input \in StringLiterals) =>
    LET c == CloseIndex(input, 2)
    IN /\ res.tag = "Ok"
       /\ res.out = SubSeq(input, 2, c - 1)
       /\ res.rest = Drop(input, c)

\* the character an escape letter denotes: \n is the line feed
LF == "\n"

Denoted(c) == IF c = "n" THEN LF ELSE c

RECURSIVE Unescape(_)
\* the text a raw string body denotes
Unescape(b) ==
  IF b = <<>> THEN <<>>
  ELSE IF Head(b) = BSLASH /\ Len(b) >= 2
       THEN <<Denoted(b[2])>> \o Unescape(Drop(b, 2))
       ELSE <<Head(b)>> \o Unescape(Tail(b))

\* the text between the quotes of the literal that json_value consumed
RawBody ==
  LET consumed == SkipWs(Take(input, Len(input) - Len(res.rest)))
  IN SubSeq(consumed, 2, Len(consumed) - 1)

\* C3: the payload of every String value produced by the value dispatcher is
\* the fully unescaped text: each escape \" \\ \n of the source body is
\* replaced by the single character it denotes.
C3_Unescaped ==
  (op = "json_value" /\ res.tag = "Ok" /\ res.out.t = "Str") =>
    res.out.s = Unescape(RawBody)

\* first characters of the six alternatives of json_value
Starters == {"{", "[", QUOTE, "t", "f", "n", "i", "+", "-", "."} \cup Digits

\* C4: if the first non-whitespace character is { [ or ", json_value either
\* succeeds with an Object, Array or String or fails fatally, never
\* recoverably; if that character starts none of the alternatives,
\* json_value fails recoverably.
C4_Commit ==
  (op = "json_value" /\ SkipWs(input) # <<>>) =>
    LET c == Head(SkipWs(input))
    IN /\ c = "{" => ((res.tag = "Ok" /\ res.out.t = "Object") \/ res.tag = "Failure")
       /\ c = "[" => ((res.tag = "Ok" /\ res.out.t = "Array") \/ res.tag = "Failure")
       /\ c = QUOTE => ((res.tag = "Ok" /\ res.out.t = "Str") \/ res.tag = "Failure")
       /\ c \notin Starters => res.tag = "Error"

C4_Witness ==
  /\ op = "json_value" /\ res.tag = "Failure"
  /\ SkipWs(input) # <<>> /\ Head(SkipWs(input)) = QUOTE

\* C5: inside an object, a key not followed by a colon, and a key followed
\* by a colon but by no value, both make root fail fatally with the label
\* "map" among the context labels.
C5_BadPairFatal ==
  (op = "root" /\ input \in BadPairObjects) =>
    (res.tag = "Failure" /\ "map" \in LabelSet(res.err))

C5_Witness ==
  op = "root" /\ input \in BadPairObjects /\ Len(input) > 8 /\ res.tag = "Failure"

\* C6: an array text whose last element is followed by a comma and the
\* closing bracket makes the array parser fail fatally with the label
\* "array"; it never succeeds with the elements before the comma.
C6_TrailingCommaFatal ==
  (op = "array" /\ input \in TrailingCommaArrays) =>
    (res.tag = "Failure" /\ "array" \in LabelSet(res.err))

C6_Witness ==
  op = "array" /\ input = <<"[", "1", ",", "1", ",", "]">> /\ res.tag = "Failure"

\* C7 (as claimed): a recoverable failure of string, array, hash, json_value
\* or root never includes context labels.
C7_NoLabelsOnError == res.tag = "Error" => Labels(res.err) = <<>>

\* C7 (amended): a recoverable failure of json_value or root includes no
\* context label; a recoverable failure of string, array or hash includes
\* exactly its own label ("string", "array", "map") and no other.
C7_OwnLabelOnly ==
  res.tag = "Error" =>
    /\ op \in {"root", "json_value"} => Labels(res.err) = <<>>
    /\ op = "string" => Labels(res.err) = <<"string">>
    /\ op = "array" => Labels(res.err) = <<"array">>
    /\ op = "hash" => Labels(res.err) = <<"map">>

C7_Witness ==
  \/ op = "string" /\ res.tag = "Error" /\ input # <<>> /\ Head(input) = "k"
  \/ op = "json_value" /\ res.tag = "Error" /\ input # <<>> /\ Head(input) = "k"

RECURSIVE OpenStack(_, _, _)
\* the productions left open by the text i, innermost first
OpenStack(i, stack, inStr) ==
  IF i = <<>> THEN stack
  ELSE IF inStr
       THEN IF Head(i) = BSLASH THEN OpenStack(Drop(i, 2), stack, TRUE)
            ELSE IF Head(i) = QUOTE THEN OpenStack(Tail(i), Tail(stack), FALSE)
            ELSE OpenStack(Tail(i), stack, TRUE)
       ELSE IF Head(i) = "[" THEN OpenStack(Tail(i), <<"array">> \o stack, FALSE)
            ELSE IF Head(i) = "{" THEN OpenStack(Tail(i), <<"map">> \o stack, FALSE)
            ELSE IF Head(i) = QUOTE THEN OpenStack(Tail(i), <<"string">> \o stack, TRUE)
            ELSE IF Head(i) \in {"]", "}"} THEN OpenStack(Tail(i), Tail(stack), FALSE)
            ELSE OpenStack(Tail(i), stack, FALSE)

\* C8: a fatal failure raised inside nested productions lists every
\* enclosing production once per nesting level, innermost first.
C8_LabelsInnermostFirst ==
  (/\ op \in {"json_value", "root"}
   /\ input \in NestedBroken
   /\ op = "root" => Head(input) \in {"[", "{"}) =>
    (res.tag = "Failure" /\ Labels(res.err) = OpenStack(input, <<>>, FALSE))

C8_Witness ==
  /\ op = "json_value"
  /\ input = <<"[", "{", QUOTE, "k", QUOTE, ":", QUOTE, "k">>
  /\ Labels(res.err) = <<"string", "map", "array">>

\* the key/value pairs of an object text, in source order
PairsOf(i) == separated_list0("pair", Tail(i)).out

LastIndex(ps, k) ==
  CHOOSE n \in DOMAIN ps :
    ps[n][1] = k /\ \A m \in DOMAIN ps : ps[m][1] = k => m <= n

\* C9: duplicate object keys are resolved last-write-wins: the mapping holds
\* each key once, bound to the value of its last occurrence in source order.
C9_LastWins ==
  op = "hash" =>
    /\ input \in ObjectTexts => res.tag = "Ok"
    /\ res.tag = "Ok" =>
         LET ps == PairsOf(input)
         IN /\ DOMAIN res.out = { ps[n][1] : n \in DOMAIN ps }
            /\ \A n \in DOMAIN ps : res.out[ps[n][1]] = ps[LastIndex(ps, ps[n][1])][2]
    /\ input = <<"{">> \o Lit(<<"k">>) \o <<":", "1", ",">> \o Lit(<<"k">>) \o <<":", "2", "}">>
         => res.out = [x \in {<<"k">>} |-> Num(2)]

C9_Witness ==
  /\ op = "hash" /\ res.tag = "Ok"
  /\ Len(PairsOf(input)) = 3
  /\ PairsOf(input)[1][1] = PairsOf(input)[3][1]
  /\ PairsOf(input)[1][2] # PairsOf(input)[3][2]
  /\ PairsOf(input)[2][1] # PairsOf(input)[1][1]

\* C10: root accepts only an object, an array or null at the top level: on a
\* text that starts with a string literal, a number, true or false, root
\* fails, although json_value accepts the same text.
C10_TopLevelRestricted ==
  (/\ op = "root"
   /\ SkipWs(input) # <<>>
   /\ \/ Head(SkipWs(input)) \in {QUOTE} \cup Digits
      \/ IsPrefix(TrueText, SkipWs(input))
      \/ IsPrefix(FalseText, SkipWs(input))) =>
    res.tag = "Error"

C10_Witness ==
  /\ op = "root" /\ res.tag = "Error"
  /\ IsPrefix(Lit(<<"k">>), SkipWs(input))
  /\ json_value(input).tag = "Ok"

====
